---- MODULE Spec2Model ----
(***************************************************************************)
(* genbase_test_helpers: the DeterministicTextClassifier adapter and the   *)
(* fixture utilities corrupt and random_combinations.                      *)
(*                                                                         *)
(* Conventions                                                             *)
(*  - Python lists are sequences; a Python index i is position i + 1.      *)
(*  - A score is an integer number of tenths (3 is 0.3, 7 is 0.7).         *)
(*  - A call is modelled by one action that runs the whole method and      *)
(*    leaves its frame (arguments, result, prediction-function calls) in   *)
(*    `frame` with pc = "returned"; Return hands the result to the caller  *)
(*    and drops the frame.  The adapter's fields outlive the frame.        *)
(*  - An exception is a result whose status names the exception.           *)
(*  - The helpers imported from instancelib and numpy (lines 7-13) are     *)
(*    modelled by their library behaviour at the place they are called.    *)
(***************************************************************************)
EXTENDS Integers, Sequences, FiniteSets, TLC

VARIABLES
    predict_function,   \* self.predict_function                (line 21)
    encoder,            \* self.encoder: the DictionaryEncoder's mapping (line 68)
    pc,                 \* "idle" | "returned": position of the adapter's caller
    frame,              \* the frame of the call that has just run
    c_pc, c_names, c_out,                   \* corrupt           (lines 141-148)
    rc_pc, rc_pool, rc_start, rc_i, rc_out  \* random_combinations (lines 151-159)

adapterVars == <<predict_function, encoder, pc, frame>>
corruptVars == <<c_pc, c_names, c_out>>
combVars    == <<rc_pc, rc_pool, rc_start, rc_i, rc_out>>
vars        == <<predict_function, encoder, pc, frame,
                 c_pc, c_names, c_out, rc_pc, rc_pool, rc_start, rc_i, rc_out>>

(***************************************************************************)
(* Bounds of the model.                                                    *)
(***************************************************************************)
MaxInst   == 3      \* longest instance sequence passed to a call
MaxBatch  == 3      \* largest batch_size passed to a call
MaxLabels == 2      \* longest target_labels sequence

(***************************************************************************)
(* Generic helpers.                                                        *)
(***************************************************************************)
Range(s) == {s[i] : i \in DOMAIN s}

SeqsUpTo(S, n) == UNION {[1..k -> S] : k \in 0..n}

Min2(a, b) == IF a <= b THEN a ELSE b
Max2(a, b) == IF a >= b THEN a ELSE b

SetMin(S) == CHOOSE m \in S : \A x \in S : m <= x

Ceil(n, b) == (n + b - 1) \div b

RECURSIVE Flatten(_)
Flatten(ss) == IF ss = <<>> THEN <<>> ELSE Head(ss) \o Flatten(Tail(ss))

(***************************************************************************)
(* Fixture data (lines 117-138).                                           *)
(***************************************************************************)
\* The two target labels of TEST_ENVIRONMENT and TEST_MODEL.
Labels == {"punctuation", "no_punctuation"}

\* Payloads: one that predict_fn scores [0.7, 0.3] and one it scores [0.3, 0.7].
Data == {"!", "z"}

\* predict_fn returns a vector of two scores.
NumCols == 2

Scores == {3, 7}

Rows == [1..NumCols -> Scores]

\* predict_fn (lines 134-135) as a table over Data.
predict_fn == [d \in Data |-> IF d = "!" THEN <<7, 3>> ELSE <<3, 7>>]

\* The dataset: instance k has identifier k and a payload fixed by the
\* dataset, as in TextEnvironment.from_data(indices=..., data=...).
Keys == 1..MaxInst

DataOf(k) == IF k % 2 = 1 THEN "!" ELSE "z"

Instance(k) == [identifier |-> k, data |-> DataOf(k)]

\* Instance sequences a caller may pass: a run of consecutive instances of
\* the dataset, in the dataset's order or reversed.
Reverse(s) == [i \in DOMAIN s |-> s[Len(s) + 1 - i]]

InstanceSeqs ==
    LET runs == {[i \in 1..p[2] |-> Instance(p[1] + i - 1)] :
                    p \in {q \in Keys \X (0..MaxInst) : q[1] + q[2] - 1 <= MaxInst}}
    IN  runs \cup {Reverse(r) : r \in runs}

BatchSizes == 1..MaxBatch

LabelSeqs == SeqsUpTo(Labels, MaxLabels)

(***************************************************************************)
(* Prediction functions.                                                   *)
(*  - A per-instance callable is a table f in [Data -> Rows].              *)
(*  - A batched callable is either row-wise over such a table, or          *)
(*    "batch_centered": it subtracts, per column, the smallest score of    *)
(*    the batch (deterministic and side-effect free, but a row depends on  *)
(*    the other payloads of its batch).                                    *)
(***************************************************************************)
PerInstanceFns == [Data -> Rows]

BatchedKinds == {"rowwise", "batch_centered"}

Ok(v)      == [status |-> "ok", value |-> v]
Raise(exc) == [status |-> exc, value |-> <<>>]

\* np.vstack of a list of vectors: a matrix with one row per vector; an
\* empty list raises ValueError.
vstack(vectors) == IF vectors = <<>> THEN Raise("ValueError") ELSE Ok(vectors)

\* from_callable's closure (lines 26-27).
batched_predict_function_first(f, instances) ==
    vstack([i \in DOMAIN instances |-> f[instances[1]]])

batched_predict_function(f, instances) ==
    vstack([i \in DOMAIN instances |-> f[instances[i]]])

\* A caller-supplied batched callable (argument of from_batched_callable).
BatchedCallable(kind, f, instances) ==
    IF kind = "rowwise"
    THEN Ok([i \in DOMAIN instances |-> f[instances[i]]])
    ELSE Ok([i \in DOMAIN instances |->
               [j \in 1..NumCols |->
                   f[instances[i]][j]
                     - SetMin({f[instances[k]][j] : k \in DOMAIN instances})]])

\* The values self.predict_function can hold after construction.
from_callable(f) == [ctor |-> "from_callable", kind |-> "per_instance", f |-> f]

from_batched_callable(kind, f) ==
    [ctor |-> "from_batched_callable", kind |-> kind, f |-> f]

\* self.predict_function(x_instances)
CallPredictFunction(pf, x_instances) ==
    IF pf.ctor = "from_callable"
    THEN batched_predict_function(pf.f, x_instances)
    ELSE BatchedCallable(pf.kind, pf.f, x_instances)

\* Whether each row is computed from its own payload alone.
RowWise(pf) == pf.ctor = "from_callable" \/ pf.kind = "rowwise"

(***************************************************************************)
(* The label encoder (DictionaryEncoder over the dict of line 68).         *)
(***************************************************************************)
\* {label: i for i, label in enumerate(labels)}: built left to right, a
\* later occurrence of a label overwrites the index of an earlier one.
RECURSIVE DictFromEnumerate(_, _, _)
DictFromEnumerate(labels, i, d) ==
    IF i > Len(labels) THEN d
    ELSE DictFromEnumerate(labels, i + 1,
             [l \in DOMAIN d \cup {labels[i]} |->
                 IF l = labels[i] THEN i - 1 ELSE d[l]])

EmptyDict == [l \in {} |-> 0]

\* set_target_labels (lines 67-68): the new value of self.encoder.
set_target_labels(labels) == DictFromEnumerate(labels, 1, EmptyDict)

\* DictionaryEncoder.inv_mapping: column index -> label.
inv_mapping(enc) ==
    [c \in {enc[l] : l \in DOMAIN enc} |-> CHOOSE l \in DOMAIN enc : enc[l] = c]

\* DictionaryEncoder.labels: the labels in increasing column order.
RECURSIVE SortedCols(_)
SortedCols(cs) ==
    IF cs = {} THEN <<>>
    ELSE LET m == SetMin(cs) IN <<m>> \o SortedCols(cs \ {m})

label_list(enc) ==
    LET cols == SortedCols({enc[l] : l \in DOMAIN enc})
    IN  [i \in DOMAIN cols |-> inv_mapping(enc)[cols[i]]]

\* zip(a, b): pairs up to the shorter argument.
zip(a, b) == [i \in 1..Min2(Len(a), Len(b)) |-> <<a[i], b[i]>>]

\* np.argmax of one row: the lowest 0-based column holding the maximum.
argmax_last(row) ==
    CHOOSE c \in 0..(Len(row) - 1) :
        /\ \A j \in DOMAIN row : row[j] <= row[c + 1]
        /\ \A j \in DOMAIN row : j > c + 1 => row[j] < row[c + 1]

argmax(row) ==
    CHOOSE c \in 0..(Len(row) - 1) :
        /\ \A j \in DOMAIN row : row[j] <= row[c + 1]
        /\ \A j \in DOMAIN row : j < c + 1 => row[j] < row[c + 1]

\* encoder.decode_matrix(np.argmax(y_pred, axis=1)): one single-label set
\* per row; a column with no label raises KeyError.
decode_matrix(enc, cols) ==
    IF \E i \in DOMAIN cols : cols[i] \notin DOMAIN inv_mapping(enc)
    THEN Raise("KeyError")
    ELSE Ok([i \in DOMAIN cols |-> {inv_mapping(enc)[cols[i]]}])

\* encoder.decode_proba_matrix(y_pred): per row, the set of
\* (label, score) pairs of zip(labels, row).
decode_proba_row(enc, row) == Range(zip(label_list(enc), row))

decode_proba_matrix(enc, y_pred) ==
    Ok([i \in DOMAIN y_pred |-> decode_proba_row(enc, y_pred[i])])

\* encoder.get_label_column_index(label) (lines 70-71): mapping[label].
get_label_column_index_default(enc, label) ==
    IF label \in DOMAIN enc THEN Ok(enc[label]) ELSE Ok(-1)

get_label_column_index(enc, label) ==
    IF label \in DOMAIN enc THEN Ok(enc[label]) ELSE Raise("KeyError")

(***************************************************************************)
(* Batching and prediction (lines 43-57, 77-89).                           *)
(***************************************************************************)
\* divide_iterable_in_lists(instances, batch_size), batch_size >= 1:
\* consecutive lists of batch_size elements, the last one possibly
\* shorter, none empty.
RECURSIVE divide_iterable_in_lists(_, _)
divide_iterable_in_lists(s, b) ==
    IF s = <<>> THEN <<>>
    ELSE LET n == Min2(b, Len(s))
         IN  <<SubSeq(s, 1, n)>> \o divide_iterable_in_lists(SubSeq(s, n + 1, Len(s)), b)

\* _pred_proba_batch_raw (lines 43-47).  `call` is the invocation of the
\* prediction function it makes.
_pred_proba_batch_raw_reversed(self, batch) ==
    LET x_keys      == [i \in DOMAIN batch |-> batch[Len(batch) + 1 - i].identifier]
        x_instances == [i \in DOMAIN batch |-> batch[i].data]
        y_pred      == CallPredictFunction(self.predict_function, x_instances)
    IN  [x_keys |-> x_keys, y_pred |-> y_pred,
         call |-> [x |-> x_instances, y |-> y_pred]]

_pred_proba_batch_raw(self, batch) ==
    LET x_keys      == [i \in DOMAIN batch |-> batch[i].identifier]
        x_instances == [i \in DOMAIN batch |-> batch[i].data]
        y_pred      == CallPredictFunction(self.predict_function, x_instances)
    IN  [x_keys |-> x_keys, y_pred |-> y_pred,
         call |-> [x |-> x_instances, y |-> y_pred]]

\* _pred_proba_batch (lines 49-53).
_pred_proba_batch(self, batch) ==
    LET raw == _pred_proba_batch_raw(self, batch)
    IN  IF raw.y_pred.status # "ok"
        THEN [status |-> raw.y_pred.status, x_keys |-> raw.x_keys,
              decoded |-> <<>>, call |-> raw.call]
        ELSE LET dec == decode_proba_matrix(self.encoder, raw.y_pred.value)
             IN  [status |-> dec.status, x_keys |-> raw.x_keys,
                  decoded |-> dec.value, call |-> raw.call]

\* _pred_batch (lines 55-57).
_pred_batch_last(self, batch) ==
    LET raw == _pred_proba_batch_raw(self, batch)
    IN  IF raw.y_pred.status # "ok"
        THEN [status |-> raw.y_pred.status, x_keys |-> raw.x_keys,
              decoded |-> <<>>, call |-> raw.call]
        ELSE LET y   == raw.y_pred.value
                 dec == decode_matrix(self.encoder,
                                      [i \in DOMAIN y |-> argmax_last(y[i])])
             IN  [status |-> dec.status, x_keys |-> raw.x_keys,
                  decoded |-> dec.value, call |-> raw.call]

_pred_batch(self, batch) ==
    LET raw == _pred_proba_batch_raw(self, batch)
    IN  IF raw.y_pred.status # "ok"
        THEN [status |-> raw.y_pred.status, x_keys |-> raw.x_keys,
              decoded |-> <<>>, call |-> raw.call]
        ELSE LET y   == raw.y_pred.value
                 dec == decode_matrix(self.encoder,
                                      [i \in DOMAIN y |-> argmax(y[i])])
             IN  [status |-> dec.status, x_keys |-> raw.x_keys,
                  decoded |-> dec.value, call |-> raw.call]

\* list(zip_chain(map(fn, batches))): `mapped` holds fn's outcome per
\* batch.  The batches are processed in order, one at a time; the first
\* exception ends the call, so later batches are never processed.
list_zip_chain(mapped) ==
    LET bad   == {i \in DOMAIN mapped : mapped[i].status # "ok"}
        stop  == IF bad = {} THEN Len(mapped) ELSE SetMin(bad)
        calls == [i \in 1..stop |-> mapped[i].call]
    IN  IF bad = {}
        THEN [status |-> "ok",
              value  |-> Flatten([i \in DOMAIN mapped |->
                                     zip(mapped[i].x_keys, mapped[i].decoded)]),
              calls  |-> calls]
        ELSE [status |-> mapped[stop].status, value |-> <<>>, calls |-> calls]

\* predict_proba_instances (lines 77-82).
predict_proba_instances(self, instances, batch_size) ==
    LET batches == divide_iterable_in_lists(instances, batch_size)
    IN  list_zip_chain([i \in DOMAIN batches |-> _pred_proba_batch(self, batches[i])])

\* predict_instances (lines 84-89).
predict_instances_whole(self, instances, batch_size) ==
    LET batches == divide_iterable_in_lists(instances, Len(instances) + 1)
    IN  list_zip_chain([i \in DOMAIN batches |-> _pred_batch(self, batches[i])])

predict_instances(self, instances, batch_size) ==
    LET batches == divide_iterable_in_lists(instances, batch_size)
    IN  list_zip_chain([i \in DOMAIN batches |-> _pred_batch(self, batches[i])])

\* The fitted property (lines 59-61).
fitted(self) == TRUE

(***************************************************************************)
(* The adapter's calls.                                                    *)
(***************************************************************************)
PredictFunctions ==
    {from_callable(f) : f \in PerInstanceFns}
        \cup {from_batched_callable(k, f) : k \in BatchedKinds, f \in PerInstanceFns}

Self == [predict_function |-> predict_function, encoder |-> encoder]

NoFrame ==
    [op |-> "none", instances |-> <<>>, batch_size |-> 0, labels |-> <<>>,
     label |-> "", result |-> Ok("None"), calls |-> <<>>]

\* TEST_LABELS (lines 119-121): the ground truth of a payload.
TEST_LABELS(d) == IF d = "!" THEN <<"punctuation">> ELSE <<"no_punctuation">>

\* __init__ (lines 20-22), reached through from_callable (lines 24-29) or
\* from_batched_callable (lines 31-33): the adapter it builds.
__init__(pf, target_labels) ==
    [predict_function |-> pf, encoder |-> set_target_labels(target_labels)]

\* fit_instances (lines 35-36): the adapter after the call.
fit_instances_refit(self, instances, labels) ==
    [self EXCEPT !.encoder = set_target_labels(Flatten(labels))]

fit_instances(self, instances, labels) == self

\* fit_provider (lines 38-41): the adapter after the call.
fit_provider(self, provider, labels, batch_size) == self

UtilitiesIdle ==
    /\ c_pc = "idle" /\ c_names = <<>> /\ c_out = <<>>
    /\ rc_pc = "idle" /\ rc_pool = <<>> /\ rc_start = 0 /\ rc_i = 0 /\ rc_out = <<>>

\* The state right after construction.
Init ==
    /\ \E pf \in PredictFunctions, target_labels \in LabelSeqs :
          LET self == __init__(pf, target_labels)
          IN  /\ predict_function = self.predict_function
              /\ encoder = self.encoder
              /\ frame = [NoFrame EXCEPT !.op = "__init__", !.labels = target_labels]
    /\ pc = "returned"
    /\ UtilitiesIdle

SetTargetLabels ==
    /\ pc = "idle"
    /\ \E labels \in LabelSeqs :
          /\ encoder' = set_target_labels(labels)
          /\ frame' = [NoFrame EXCEPT !.op = "set_target_labels", !.labels = labels]
    /\ pc' = "returned"
    /\ UNCHANGED <<predict_function, corruptVars, combVars>>

GetLabelColumnIndex ==
    /\ pc = "idle"
    /\ \E label \in Labels \cup {"unknown"} :
          frame' = [NoFrame EXCEPT !.op = "get_label_column_index", !.label = label,
                                   !.result = get_label_column_index(encoder, label)]
    /\ pc' = "returned"
    /\ UNCHANGED <<predict_function, encoder, corruptVars, combVars>>

FitInstances ==
    /\ pc = "idle"
    /\ \E instances \in InstanceSeqs :
          LET labels == [i \in DOMAIN instances |-> TEST_LABELS(instances[i].data)]
              self   == fit_instances(Self, instances, labels)
          IN  /\ predict_function' = self.predict_function
              /\ encoder' = self.encoder
              /\ frame' = [NoFrame EXCEPT !.op = "fit_instances",
                                          !.instances = instances]
    /\ pc' = "returned"
    /\ UNCHANGED <<corruptVars, combVars>>

FitProvider ==
    /\ pc = "idle"
    /\ \E batch_size \in BatchSizes :
          LET provider == [k \in Keys |-> Instance(k)]
              labels   == [k \in Keys |-> TEST_LABELS(DataOf(k))]
              self     == fit_provider(Self, provider, labels, batch_size)
          IN  /\ predict_function' = self.predict_function
              /\ encoder' = self.encoder
              /\ frame' = [NoFrame EXCEPT !.op = "fit_provider",
                                          !.instances = provider,
                                          !.batch_size = batch_size]
    /\ pc' = "returned"
    /\ UNCHANGED <<corruptVars, combVars>>

PredictProbaInstances ==
    /\ pc = "idle"
    /\ \E instances \in InstanceSeqs, batch_size \in BatchSizes :
          LET r == predict_proba_instances(Self, instances, batch_size)
          IN  frame' = [NoFrame EXCEPT !.op = "predict_proba_instances",
                                       !.instances = instances,
                                       !.batch_size = batch_size,
                                       !.result = [status |-> r.status, value |-> r.value],
                                       !.calls = r.calls]
    /\ pc' = "returned"
    /\ UNCHANGED <<predict_function, encoder, corruptVars, combVars>>

PredictInstances ==
    /\ pc = "idle"
    /\ \E instances \in InstanceSeqs, batch_size \in BatchSizes :
          LET r == predict_instances(Self, instances, batch_size)
          IN  frame' = [NoFrame EXCEPT !.op = "predict_instances",
                                       !.instances = instances,
                                       !.batch_size = batch_size,
                                       !.result = [status |-> r.status, value |-> r.value],
                                       !.calls = r.calls]
    /\ pc' = "returned"
    /\ UNCHANGED <<predict_function, encoder, corruptVars, combVars>>

\* The call returns to its caller: the frame is gone, the adapter stays.
Return ==
    /\ pc = "returned"
    /\ pc' = "idle"
    /\ frame' = NoFrame
    /\ UNCHANGED <<predict_function, encoder, corruptVars, combVars>>

Next ==
    \/ SetTargetLabels
    \/ GetLabelColumnIndex
    \/ FitInstances
    \/ FitProvider
    \/ PredictProbaInstances
    \/ PredictInstances
    \/ Return

Spec == Init /\ [][Next]_vars

(***************************************************************************)
(* Fixture utilities (lines 141-159).                                      *)
(* A str is a sequence of one-character strings; a value passed to         *)
(* corrupt is [type |-> "str", val |-> <chars>] or                         *)
(* [type |-> "list", val |-> <strs>].                                      *)
(***************************************************************************)
MaxNames == 2       \* longest list of names passed to corrupt
MaxPool  == 3       \* longest iterable passed to random_combinations

ascii_lowercase ==
    <<"a", "b", "c", "d", "e", "f", "g", "h", "i", "j", "k", "l", "m",
      "n", "o", "p", "q", "r", "s", "t", "u", "v", "w", "x", "y", "z">>

digits == <<"0", "1", "2", "3", "4", "5", "6", "7", "8", "9">>

\* TEST_MODEL (line 138): the adapter the module builds at import.
TEST_MODEL == __init__(from_callable(predict_fn), <<"punctuation", "no_punctuation">>)

AdapterIdle ==
    /\ predict_function = TEST_MODEL.predict_function
    /\ encoder = TEST_MODEL.encoder
    /\ pc = "idle"
    /\ frame = NoFrame

Str(chars)  == [type |-> "str", val |-> chars]
List(items) == [type |-> "list", val |-> items]

\* The strs the model passes around.
NameStrs == {<<>>, <<"a">>, <<"a", "b", "c">>}

CorruptInputs ==
    {Str(s) : s \in NameStrs} \cup {List(l) : l \in SeqsUpTo(NameStrs, MaxNames)}

\* isinstance(names, Iterable) (line 146): a str is an Iterable, as a list is.
IsIterable(names) == names.type \in {"str", "list"}

\* What `for s in names` yields: a list's items, a str's characters (each a
\* str of length one).
Iterate(names) ==
    IF names.type = "str" THEN [i \in DOMAIN names.val |-> <<names.val[i]>>]
    ELSE names.val

\* corrupt_one (lines 143-144) with `choice` the outcome of random.choice.
corrupt_one(choice, name) == <<choice>> \o name

\* corrupt, entered (lines 141-147): the comprehension starts, or line 148
\* returns at once.
CorruptCall ==
    /\ c_pc = "idle"
    /\ \E names \in CorruptInputs :
          /\ c_names' = names
          /\ IF IsIterable(names)
             THEN /\ c_out' = List(<<>>)
                  /\ c_pc' = IF Iterate(names) = <<>> THEN "done" ELSE "loop"
             ELSE /\ \E choice \in Range(ascii_lowercase \o digits) :
                        c_out' = Str(corrupt_one(choice, names.val))
                  /\ c_pc' = "done"
    /\ UNCHANGED <<adapterVars, combVars>>

\* One element of the comprehension of line 147.
CorruptStep ==
    /\ c_pc = "loop"
    /\ LET todo == Iterate(c_names)
           s    == todo[Len(c_out.val) + 1]
       IN  /\ \E choice \in Range(ascii_lowercase \o digits) :
                 c_out' = List(Append(c_out.val, corrupt_one(choice, s)))
           /\ c_pc' = IF Len(c_out.val) + 1 = Len(todo) THEN "done" ELSE "loop"
    /\ UNCHANGED <<c_names, adapterVars, combVars>>

CorruptReturn ==
    /\ c_pc = "done"
    /\ c_pc' = "idle" /\ c_names' = <<>> /\ c_out' = <<>>
    /\ UNCHANGED <<adapterVars, combVars>>

InitCorrupt ==
    /\ AdapterIdle
    /\ UtilitiesIdle

NextCorrupt ==
    \/ CorruptCall
    \/ CorruptStep
    \/ CorruptReturn

SpecCorrupt == InitCorrupt /\ [][NextCorrupt]_vars

\* --- random_combinations ------------------------------------------------
PoolValues == {1, 2, 3}

Pools == SeqsUpTo(PoolValues, MaxPool)

Starts == (-1)..(MaxPool + 1)

\* sorted(s) for a sequence of distinct integers.
RECURSIVE sorted(_)
sorted(s) ==
    IF s = <<>> THEN <<>>
    ELSE LET m    == SetMin(Range(s))
             rest == CHOOSE t \in [1..(Len(s) - 1) -> Range(s) \ {m}] :
                         Range(t) = Range(s) \ {m}
         IN  <<m>> \o sorted(rest)

\* The outcomes of random.sample(range(n), r): r distinct indices in any order.
Sample(n, r) == {s \in [1..r -> 0..(n - 1)] : \A i, j \in 1..r : s[i] = s[j] => i = j}

\* random_combination (lines 156-157) with `sample` the outcome of random.sample.
random_combination_unsorted(pool, sample) ==
    [k \in DOMAIN sample |-> pool[sample[k] + 1]]

random_combination(pool, sample) ==
    LET idx == sorted(sample)
    IN  [k \in DOMAIN idx |-> pool[idx[k] + 1]]

\* random_combinations, entered (lines 153-154); rc_start keeps the
\* argument, rc_i is the comprehension's loop variable.
clamp_start(pool, start) == Min2(Len(pool), Max2(0, start))

RandomCombinationsCall ==
    /\ rc_pc = "idle"
    /\ \E iterable \in Pools, start \in Starts :
          /\ rc_pool' = iterable
          /\ rc_start' = start
          /\ rc_i' = clamp_start(iterable, start)
    /\ rc_out' = <<>>
    /\ rc_pc' = "loop"
    /\ UNCHANGED <<adapterVars, corruptVars>>

\* One element of the comprehension of line 159, i in range(start, len(pool) + 1).
RandomCombinationsStep ==
    /\ rc_pc = "loop"
    /\ rc_i < Len(rc_pool) + 1
    /\ \E sample \in Sample(Len(rc_pool), rc_i) :
          rc_out' = Append(rc_out, random_combination(rc_pool, sample))
    /\ rc_i' = rc_i + 1
    /\ UNCHANGED <<rc_pc, rc_pool, rc_start, adapterVars, corruptVars>>

\* The range is exhausted: line 159 returns the list.
RandomCombinationsDone ==
    /\ rc_pc = "loop"
    /\ rc_i >= Len(rc_pool) + 1
    /\ rc_pc' = "done"
    /\ UNCHANGED <<rc_pool, rc_start, rc_i, rc_out, adapterVars, corruptVars>>

RandomCombinationsReturn ==
    /\ rc_pc = "done"
    /\ rc_pc' = "idle" /\ rc_pool' = <<>> /\ rc_start' = 0 /\ rc_i' = 0 /\ rc_out' = <<>>
    /\ UNCHANGED <<adapterVars, corruptVars>>

InitComb ==
    /\ AdapterIdle
    /\ UtilitiesIdle

NextComb ==
    \/ RandomCombinationsCall
    \/ RandomCombinationsStep
    \/ RandomCombinationsDone
    \/ RandomCombinationsReturn

SpecComb == InitComb /\ [][NextComb]_vars

(***************************************************************************)
(* Properties.                                                             *)
(***************************************************************************)
PredictOps == {"predict_instances", "predict_proba_instances"}

Returned(ops) == pc = "returned" /\ frame.op \in ops

\* The payloads handed to the prediction function and the rows it gave
\* back, over the calls of the frame, in call order.
CallPayloads == Flatten([k \in DOMAIN frame.calls |-> frame.calls[k].x])

CallRows ==
    Flatten([k \in DOMAIN frame.calls |->
                IF frame.calls[k].y.status = "ok" THEN frame.calls[k].y.value ELSE <<>>])

Payloads(instances) == [i \in DOMAIN instances |-> instances[i].data]

\* The columns holding the maximum of a row (0-based).
MaxCols(row) == {c \in 0..(Len(row) - 1) : \A j \in DOMAIN row : row[j] <= row[c + 1]}

LabelsAt(c) == {l \in DOMAIN encoder : encoder[l] = c}

\* What one entry of the output holds for a row.
Decoded(op, row) ==
    IF op = "predict_instances"
    THEN LabelsAt(SetMin(MaxCols(row)))
    ELSE {<<label_list(encoder)[j], row[j]>> :
             j \in 1..Min2(Len(label_list(encoder)), Len(row))}

\* C1: a prediction call that returns gives one entry per input instance,
\* in input order: entry i holds the identifier of instance i and the
\* decoding of the row the prediction function produced for the payload of
\* instance i.  predict_proba_instances always returns; predict_instances
\* fails only with KeyError, and only on a row whose maximum column has no
\* label in the encoder.
C1_OneEntryPerInstanceInOrder ==
    Returned(PredictOps) =>
        /\ frame.result.status = "ok" =>
              /\ Len(frame.result.value) = Len(frame.instances)
              /\ CallPayloads = Payloads(frame.instances)
              /\ Len(CallRows) = Len(frame.instances)
              /\ \A i \in DOMAIN frame.instances :
                    /\ frame.result.value[i][1] = frame.instances[i].identifier
                    /\ frame.result.value[i][2] = Decoded(frame.op, CallRows[i])
        /\ frame.result.status # "ok" =>
              /\ frame.op = "predict_instances"
              /\ frame.result.status = "KeyError"
              /\ \E i \in DOMAIN CallRows : LabelsAt(SetMin(MaxCols(CallRows[i]))) = {}

\* A call over three instances split into a full and a partial batch.
C1_Witness ==
    /\ Returned(PredictOps)
    /\ frame.result.status = "ok"
    /\ Len(frame.instances) = 3
    /\ frame.batch_size = 2
    /\ Len(frame.calls) = 2
    /\ frame.instances[1].identifier > frame.instances[2].identifier

\* The same call with another batch size.
Recomputed(b) ==
    IF frame.op = "predict_instances"
    THEN predict_instances(Self, frame.instances, b)
    ELSE predict_proba_instances(Self, frame.instances, b)

SameForEveryBatchSize ==
    \A b \in BatchSizes :
        /\ Recomputed(b).status = frame.result.status
        /\ Recomputed(b).value = frame.result.value

\* The encoder gives each column of the prediction function one label.
EncoderAligned == {encoder[l] : l \in DOMAIN encoder} = 0..(NumCols - 1)

\* C2 as stated: for every adapter, whatever deterministic prediction
\* function it was built from, the result of a prediction call does not
\* depend on the batch size (stated here for the adapters whose encoder is
\* aligned with the function's columns, where every call returns).
C2_AnyFunctionBatchIndependent ==
    (Returned(PredictOps) /\ EncoderAligned) => SameForEveryBatchSize

\* C2 amended: the result does not depend on the batch size when the
\* adapter was built with from_callable, or with from_batched_callable from
\* a function that computes each row from that instance's payload alone.
C2_RowWiseBatchIndependent ==
    (Returned(PredictOps) /\ RowWise(predict_function)) => SameForEveryBatchSize

\* A row-wise adapter whose call ran in more than one batch.
C2_Witness ==
    /\ Returned(PredictOps)
    /\ RowWise(predict_function)
    /\ frame.result.status = "ok"
    /\ Len(frame.calls) >= 2
    /\ \E i, j \in DOMAIN CallRows : CallRows[i] # CallRows[j]

\* C3: every entry predict_instances returns is the single-label set of
\* the label whose column holds the maximum score of the instance's row,
\* the lowest such column on a tie; with labels ["punctuation",
\* "no_punctuation"], [0.7, 0.3] gives {"punctuation"} and [0.3, 0.7]
\* gives {"no_punctuation"}.
C3_ArgmaxLowestIndex ==
    (Returned({"predict_instances"}) /\ frame.result.status = "ok") =>
        \A i \in DOMAIN frame.result.value :
            LET row == CallRows[i]
                out == frame.result.value[i][2]
            IN  /\ \E l \in DOMAIN encoder :
                      /\ out = {l}
                      /\ \A j \in DOMAIN row : row[j] <= row[encoder[l] + 1]
                      /\ \A j \in DOMAIN row : j < encoder[l] + 1 => row[j] < row[encoder[l] + 1]
                /\ encoder = set_target_labels(<<"punctuation", "no_punctuation">>) =>
                      /\ row = <<7, 3>> => out = {"punctuation"}
                      /\ row = <<3, 7>> => out = {"no_punctuation"}

\* A returned prediction holding a tied row and the rows [0.7, 0.3] and [0.3, 0.7].
C3_Witness ==
    /\ Returned({"predict_instances"})
    /\ frame.result.status = "ok"
    /\ encoder = set_target_labels(<<"punctuation", "no_punctuation">>)
    /\ \E i \in DOMAIN CallRows :
          CallRows[i][1] = CallRows[i][2] /\ frame.result.value[i][2] = {"punctuation"}
    /\ \E i \in DOMAIN CallRows :
          CallRows[i] = <<3, 7>> /\ frame.result.value[i][2] = {"no_punctuation"}

\* The whole dataset, in the order of its identifiers.
Dataset == [k \in Keys |-> Instance(k)]

\* C4: a fit_instances or fit_provider call succeeds and leaves the
\* prediction function and the encoder as they were (all a prediction
\* depends on), so predicting the dataset gives after it, for every batch
\* size, what it gave before it; fitted is true before and after.
C4_FitIsNoOp ==
    [][(pc = "idle" /\ frame'.op \in {"fit_instances", "fit_provider"}) =>
          LET after == [predict_function |-> predict_function', encoder |-> encoder']
          IN  /\ frame'.result = Ok("None")
              /\ after = Self
              /\ fitted(Self) /\ fitted(after)
              /\ \A b \in BatchSizes :
                    /\ predict_instances(after, Dataset, b)
                          = predict_instances(Self, Dataset, b)
                    /\ predict_proba_instances(after, Dataset, b)
                          = predict_proba_instances(Self, Dataset, b)]_vars

\* A fit over instances whose ground truth differs from the adapter's labels.
C4_Witness ==
    /\ Returned({"fit_instances"})
    /\ Len(frame.instances) >= 2
    /\ DOMAIN encoder = {"no_punctuation"}
    /\ frame.instances[1].data = "!"

\* C7 as stated: after construction and after every set_target_labels
\* call, for every label sequence (one that repeats a label included), the
\* encoder holds exactly the labels of the latest call, no two labels share
\* a column, and the columns are 0..k-1 for k distinct labels.
C7_EncoderDenseBijection ==
    LET cols == {encoder[l] : l \in DOMAIN encoder}
    IN  /\ Returned({"__init__", "set_target_labels"}) =>
              DOMAIN encoder = Range(frame.labels)
        /\ \A l1, l2 \in DOMAIN encoder : encoder[l1] = encoder[l2] => l1 = l2
        /\ cols = 0..(Cardinality(DOMAIN encoder) - 1)

\* C8: get_label_column_index returns the encoder's column of a label of
\* the current label set, raises KeyError (a LookupError) for any other
\* label, and leaves the encoder as it was.
C8_LookupOrKeyError ==
    [][(pc = "idle" /\ frame'.op = "get_label_column_index") =>
          /\ encoder' = encoder
          /\ frame'.label \in DOMAIN encoder => frame'.result = Ok(encoder[frame'.label])
          /\ frame'.label \notin DOMAIN encoder => frame'.result = Raise("KeyError")]_vars

\* A failed lookup of a target label that the current encoder does not hold.
C8_Witness ==
    /\ Returned({"get_label_column_index"})
    /\ frame.label = "punctuation"
    /\ DOMAIN encoder = {"no_punctuation"}
    /\ frame.result.status = "KeyError"

\* C9 as stated: construction with an empty label set is rejected with an
\* error, and no adapter ever holds an empty encoder.
C9_EmptyLabelsRejected ==
    /\ (Returned({"__init__"}) /\ frame.labels = <<>>) => frame.result.status # "ok"
    /\ DOMAIN encoder # {}

\* C10: a prediction call invokes the prediction function on non-empty
\* slices of at most batch_size payloads, taken in input order; a call that
\* returns has made ceil(n / batch_size) invocations that cover the input
\* exactly once; for an empty input there is no invocation (np.vstack never
\* gets an empty list) and the result is the empty list.
C10_OneInvocationPerBatch ==
    Returned(PredictOps) =>
        LET n    == Len(frame.instances)
            b    == frame.batch_size
            done == Len(CallPayloads)
        IN  /\ \A k \in DOMAIN frame.calls :
                  /\ Len(frame.calls[k].x) >= 1
                  /\ Len(frame.calls[k].x) <= b
                  /\ k < Len(frame.calls) => Len(frame.calls[k].x) = b
                  /\ frame.calls[k].y.status # "ValueError"
            /\ done <= n
            /\ CallPayloads = SubSeq(Payloads(frame.instances), 1, done)
            /\ frame.result.status = "ok" =>
                  /\ Len(frame.calls) = Ceil(n, b)
                  /\ done = n
            /\ n = 0 => frame.calls = <<>> /\ frame.result = Ok(<<>>)

\* A call whose last batch is partial.
C10_Witness ==
    /\ Returned(PredictOps)
    /\ frame.result.status = "ok"
    /\ Len(frame.instances) = 3
    /\ frame.batch_size = 2
    /\ Len(frame.calls) = 2
    /\ Len(frame.calls[2].x) = 1

\* One name corrupted: one character of the alphabet, then the name.
CorruptedFrom(out, name) ==
    /\ Len(out) = Len(name) + 1
    /\ out[1] \in Range(ascii_lowercase \o digits)
    /\ Cardinality(Range(ascii_lowercase \o digits)) = 36
    /\ SubSeq(out, 2, Len(out)) = name

\* C5 as stated: corrupt of a single str returns a str one character
\* longer, an alphabet character followed by the str; corrupt of a sequence
\* of strs returns a sequence of the same length whose elements are the
\* input's elements, each corrupted, in order.
C5_CorruptPrependsOneChar ==
    c_pc = "done" =>
        /\ c_names.type = "str" =>
              /\ c_out.type = "str"
              /\ CorruptedFrom(c_out.val, c_names.val)
        /\ c_names.type = "list" =>
              /\ c_out.type = "list"
              /\ Len(c_out.val) = Len(c_names.val)
              /\ \A i \in DOMAIN c_names.val : CorruptedFrom(c_out.val[i], c_names.val[i])

\* a is b with elements left out, the others in their order.
RECURSIVE IsSubsequence(_, _)
IsSubsequence(a, b) ==
    IF a = <<>> THEN TRUE
    ELSE IF b = <<>> THEN FALSE
    ELSE IF Head(a) = Head(b) THEN IsSubsequence(Tail(a), Tail(b))
    ELSE IsSubsequence(a, Tail(b))

\* C6: random_combinations(items, start) returns one combination for each
\* size r from s = min(n, max(0, start)) to n, in increasing order of r;
\* the combination of size r holds r elements from r distinct positions of
\* items in their original relative order.  random_combinations([], 1) is
\* [[]]; random_combinations([1, 2, 3], 1) has sizes 1, 2, 3.
C6_OneCombinationPerSize ==
    rc_pc = "done" =>
        LET n == Len(rc_pool)
            s == IF rc_start < 0 THEN 0 ELSE IF rc_start > n THEN n ELSE rc_start
        IN  /\ Len(rc_out) = n - s + 1
            /\ \A k \in DOMAIN rc_out :
                  /\ Len(rc_out[k]) = s + k - 1
                  /\ IsSubsequence(rc_out[k], rc_pool)
            /\ (rc_pool = <<>> /\ rc_start = 1) => rc_out = << <<>> >>
            /\ (rc_pool = <<1, 2, 3>> /\ rc_start = 1) =>
                  [k \in DOMAIN rc_out |-> Len(rc_out[k])] = <<1, 2, 3>>

\* random_combinations([1, 2, 3], 1) returned a combination of size 2 that
\* skips the middle element.
C6_Witness ==
    /\ rc_pc = "done"
    /\ rc_pool = <<1, 2, 3>>
    /\ rc_start = 1
    /\ Len(rc_out) = 3
    /\ rc_out[2] = <<1, 3>>

====
